---------------------------- MODULE Spec2Model ----------------------------
(***************************************************************************)
(* Model of run_signals.py: the entry validator (validate_entry_price),    *)
(* the pip arithmetic it rests on (get_pip_value, calculate_pip_distance)  *)
(* and the orchestration of main around call_model_structured; and, each   *)
(* on its own, call_model_structured, fetch_current_market_data,           *)
(* format_symbol_for_twelvedata with get_pip_value, and render_prompt.     *)
(*                                                                         *)
(* Numbers.  A price is an integer number of 0.00001 price units           *)
(* (1.10000 is 110000), a pip distance is an integer number of hundredths  *)
(* of a pip (50.00 pips is 5000), which is the precision round(pips, 2)    *)
(* leaves.  An optional value (Python None or a value) is a sequence of    *)
(* length at most one.  A symbol is the sequence of its characters, so     *)
(* that the substring tests of get_pip_value are computed, not assumed.    *)
(***************************************************************************)
EXTENDS Integers, Sequences, FiniteSets, TLC

VARIABLES
    \* validate_entry_price applied to drawn inputs
    vpc,          \* "idle", "input" before the call, "done" after it, "again"
                  \* after a second call
    record,       \* the dict handed to validate_entry_price (signal, entry)
    price,        \* its current_price argument (optional)
    sym,          \* its symbol argument
    validation,   \* the dict validate_entry_price returned (optional)
    given,        \* the record as it was drawn, before any call
    validation2,  \* the dict a second call on the same arguments returned (optional)
    \* both
    tie,          \* how the float rounding of an exact half falls: 0 down, 1 up
    \* main
    pc,           \* where main is: "idle", "start", "fetch", "pair", "attempt",
                  \* "validate", "finish", "done", "aborted"
    SYMBOLS,      \* the configured symbols
    si,           \* index of the symbol of the outer loop
    pi,           \* index of the prompt of the inner loop
    main_price,   \* main's current_price: the price fetched for the symbol (optional)
    attempt,      \* call_model_structured's loop variable
    last_err,     \* call_model_structured's last_err (optional)
    main_result,  \* main's result: the dict call_model_structured returned (optional)
    all_results,  \* main's all_results
    saved,        \* the per-pair files save_json wrote, in order
    combined,     \* the *_all.json file of the run (optional)
    http_client,  \* "unset", "open", "closed"
    raised,       \* the exception main let escape (optional)
    fetched,      \* what fetch_current_market_data returned, per symbol so far
    \* call_model_structured called on its own, with a drawn max_retries
    req,
    \* fetch_current_market_data called on its own
    fx,
    \* format_symbol_for_twelvedata and get_pip_value called on a drawn symbol
    sy,
    \* render_prompt called on a drawn template and variables
    rp

valVars == <<vpc, record, price, sym, validation, given, validation2>>

mainVars == <<pc, SYMBOLS, si, pi, main_price, attempt, last_err, main_result,
              all_results, saved, combined, http_client, raised, fetched>>

pureVars == <<sy, rp>>

vars == <<valVars, tie, mainVars, req, fx, pureVars>>

-----------------------------------------------------------------------------
(* Optional values *)

None == <<>>

Some(x) == <<x>>

Abs(x) == IF x < 0 THEN -x ELSE x

-----------------------------------------------------------------------------
(* Symbols as character sequences *)

EURUSD == <<"E", "U", "R", "U", "S", "D">>

AUDJPY == <<"A", "U", "D", "J", "P", "Y">>

XAUUSD == <<"X", "A", "U", "U", "S", "D">>

\* Python's `sub in s` on strings
Contains(sub, s) ==
    \E i \in 1..(Len(s) - Len(sub) + 1) : SubSeq(s, i, i + Len(sub) - 1) = sub

LowerCase == <<"a", "d", "g", "l", "o", "u", "x">>

UpperCase == <<"A", "D", "G", "L", "O", "U", "X">>

\* str.upper(), on the letters the model's symbols are written with
Upper(s) ==
    [i \in 1..Len(s) |->
        IF \E k \in 1..Len(LowerCase) : LowerCase[k] = s[i]
        THEN UpperCase[CHOOSE k \in 1..Len(LowerCase) : LowerCase[k] = s[i]]
        ELSE s[i]]

-----------------------------------------------------------------------------
(* Pip arithmetic *)

\* the XAU and GOLD test made first
get_pip_value_gold_first(symbol) ==
    IF Contains(<<"X", "A", "U">>, symbol)
       \/ Contains(<<"G", "O", "L", "D">>, Upper(symbol)) THEN 1000000
    ELSE IF Contains(<<"J", "P", "Y">>, symbol) THEN 100000
    ELSE 1000

\* get_pip_value: 1.00, 10.00 or 0.0100, in price units.  The dict pip_values
\* of the function is never read.
get_pip_value(symbol) ==
    IF Contains(<<"J", "P", "Y">>, symbol) THEN 100000
    ELSE IF Contains(<<"X", "A", "U">>, symbol)
            \/ Contains(<<"G", "O", "L", "D">>, Upper(symbol)) THEN 1000000
    ELSE 1000

\* rounding to one decimal instead of two, still in hundredths
round2_one_decimal(n, d, t) ==
    LET whole == n \div d
        q == (10 * (n % d)) \div d
        r == (10 * (n % d)) % d
    IN  IF 2 * r < d THEN 100 * whole + 10 * q
        ELSE IF 2 * r > d THEN 100 * whole + 10 * (q + 1)
        ELSE 100 * whole + 10 * (q + t)

\* round(n / d, 2) in hundredths, n >= 0, d > 0.  An exact half is not
\* representable in binary floating point: the float lies just below or just
\* above it and round() follows the float, so either neighbour can come out;
\* t (0 or 1) is the way it falls.  The whole pips are split off first to keep
\* the products small.
round2(n, d, t) ==
    LET whole == n \div d
        q == (100 * (n % d)) \div d
        r == (100 * (n % d)) % d
    IN  IF 2 * r < d THEN 100 * whole + q
        ELSE IF 2 * r > d THEN 100 * whole + q + 1
        ELSE 100 * whole + q + t

calculate_pip_distance(entry, current_price, symbol, t) ==
    IF entry = None \/ current_price = None THEN None
    ELSE LET pip_value == get_pip_value(symbol)
             distance == Abs(entry[1] - current_price[1])
         IN  Some(round2(distance, pip_value, t))

-----------------------------------------------------------------------------
(* validate_entry_price *)

\* the limit of `pip_distance > 100`, in hundredths of a pip
MaxPips == 10000

\* A message: the text of the f-string and the numbers formatted into it
Msg(text, args) == [text |-> text, args |-> args]

\* the warnings list kept between calls instead of created by each
NewValidation_shared(result, current_price) ==
    [valid |-> TRUE,
     original_signal |-> result.signal,
     final_signal |-> result.signal,
     violation_reason |-> None,
     entry_distance_pips |-> None,
     current_price |-> current_price,
     warnings |-> IF validation = None THEN <<>> ELSE validation[1].warnings]

NewValidation(result, current_price) ==
    [valid |-> TRUE,
     original_signal |-> result.signal,
     final_signal |-> result.signal,
     violation_reason |-> None,
     entry_distance_pips |-> None,
     current_price |-> current_price,
     warnings |-> <<>>]

IsHold_never(result) == FALSE

IsHold(result) == result.signal = "HOLD"

PriceAbsent_never(current_price) == FALSE

PriceAbsent(current_price) == current_price = None

NoPriceBranch_blocks(v) ==
    [v EXCEPT !.valid = FALSE,
              !.final_signal = "HOLD",
              !.violation_reason = Some(Msg("No current price available for validation", <<>>)),
              !.warnings = Append(@, Msg("No current price available for validation", <<>>)),
              !.entry_distance_pips = None]

NoPriceBranch(v) ==
    [v EXCEPT !.warnings = Append(@, Msg("No current price available for validation", <<>>)),
              !.entry_distance_pips = None]

NullEntryBranch_keeps(v) ==
    [v EXCEPT !.valid = FALSE,
              !.violation_reason = Some(Msg("Entry price is null but signal is not HOLD", <<>>)),
              !.warnings = Append(@, Msg("Entry price is null - forcing HOLD", <<>>))]

NullEntryBranch(v) ==
    [v EXCEPT !.valid = FALSE,
              !.final_signal = "HOLD",
              !.violation_reason = Some(Msg("Entry price is null but signal is not HOLD", <<>>)),
              !.warnings = Append(@, Msg("Entry price is null - forcing HOLD", <<>>))]

TooFar_overwrites_original(v, entry, pip_distance, current_price) ==
    [v EXCEPT !.valid = FALSE,
              !.original_signal = "HOLD",
              !.final_signal = "HOLD",
              !.violation_reason =
                  Some(Msg("Entry price ({}) is {} pips away from current price ({}), exceeding 100 pip limit",
                           <<entry, pip_distance, current_price>>)),
              !.warnings = Append(@, Msg("Entry too far from current price: {} pips (max 100)",
                                         <<pip_distance>>))]

TooFar_no_reason(v, entry, pip_distance, current_price) ==
    [v EXCEPT !.valid = FALSE,
              !.final_signal = "HOLD",
              !.warnings = Append(@, Msg("Entry too far from current price: {} pips (max 100)",
                                         <<pip_distance>>))]

TooFar(v, entry, pip_distance, current_price) ==
    [v EXCEPT !.valid = FALSE,
              !.final_signal = "HOLD",
              !.violation_reason =
                  Some(Msg("Entry price ({}) is {} pips away from current price ({}), exceeding 100 pip limit",
                           <<entry, pip_distance, current_price>>)),
              !.warnings = Append(@, Msg("Entry too far from current price: {} pips (max 100)",
                                         <<pip_distance>>))]

TooFarCheck_inclusive(v, entry, pip_distance, current_price) ==
    IF pip_distance # None /\ pip_distance[1] >= MaxPips
    THEN TooFar(v, entry, pip_distance[1], current_price)
    ELSE v

TooFarCheck(v, entry, pip_distance, current_price) ==
    IF pip_distance # None /\ pip_distance[1] > MaxPips
    THEN TooFar(v, entry, pip_distance[1], current_price)
    ELSE v

NonPositive(v, entry) ==
    [v EXCEPT !.valid = FALSE,
              !.final_signal = "HOLD",
              !.violation_reason =
                  Some(Msg("Entry price ({}) is unrealistic (non-positive)", <<entry>>)),
              !.warnings = Append(@, Msg("Entry price is non-positive - forcing HOLD", <<>>))]

NonPositiveCheck_negative(v, entry) ==
    IF entry < 0 THEN NonPositive(v, entry) ELSE v

NonPositiveCheck_first_wins(v, entry) ==
    IF entry <= 0 /\ v.valid THEN NonPositive(v, entry) ELSE v

NonPositiveCheck_no_override(v, entry) ==
    IF entry <= 0
    THEN [NonPositive(v, entry) EXCEPT !.final_signal = v.final_signal]
    ELSE v

NonPositiveCheck(v, entry) ==
    IF entry <= 0 THEN NonPositive(v, entry) ELSE v

validate_entry_price(result, current_price, symbol, t) ==
    LET v0 == NewValidation(result, current_price)
        entry == result.entry
    IN  IF IsHold(result) THEN [v0 EXCEPT !.entry_distance_pips = None]
        ELSE IF PriceAbsent(current_price) THEN NoPriceBranch(v0)
        ELSE IF entry = None THEN NullEntryBranch(v0)
        ELSE LET pip_distance == calculate_pip_distance(entry, current_price, symbol, t)
                 v1 == [v0 EXCEPT !.entry_distance_pips = pip_distance]
                 v2 == TooFarCheck(v1, entry[1], pip_distance, current_price[1])
             IN  NonPositiveCheck(v2, entry[1])

-----------------------------------------------------------------------------
(* Inputs of the validator *)

\* how many steps of half a hundredth of a pip the entries go on either side
\* of the 100-pip limit
NearSteps == 2

Symbols == {EURUSD, AUDJPY, XAUUSD}

Signals == {"BUY", "SELL", "HOLD"}

\* a quote of the symbol: 1.10000, 95.00000, 2000.00000
BasePrice(symbol) ==
    IF symbol = AUDJPY THEN 9500000
    ELSE IF symbol = XAUUSD THEN 200000000
    ELSE 110000

RefPrices(symbol) == {None, Some(BasePrice(symbol)), Some(BasePrice(symbol) \div 2)}

\* distances from the reference price: half a pip, 2 pips, and around 100 pips
\* (of get_pip_value) in steps of half a hundredth of a pip, and 100.004 pips
Offsets(symbol) ==
    LET pip == get_pip_value(symbol)
    IN  {pip \div 2, 2 * pip, 50 * pip, 100 * pip + pip \div 250}
        \cup {100 * pip + j * (pip \div 200) : j \in (0 - NearSteps)..NearSteps}

Entries(symbol, current_price) ==
    LET b == IF current_price = None THEN BasePrice(symbol) ELSE current_price[1]
    IN  {None, Some(0), Some(0 - 10 * get_pip_value(symbol))}
        \cup {Some(b + o) : o \in Offsets(symbol)}
        \cup {Some(b - o) : o \in Offsets(symbol)}

-----------------------------------------------------------------------------
(* call_model_structured: what it does to a parsed response *)

\* the default of the parameter max_retries; main never passes another
max_retries == 5

\* Python's `a or b` on strings: the empty string is falsy
Or(a, b) == IF a = "" THEN b ELSE a

\* the same on a symbol, a string kept as its characters
OrChars(a, b) == IF a = <<>> THEN b ELSE a

\* the model's prompt_name and current_price kept when it gave them
FillFields_trusts_model(data, prompt_name, symbol, timeframe, timestamp_utc, notes, cur_price, t) ==
    [data EXCEPT !.prompt_name = IF data.prompt_name = "" THEN prompt_name ELSE data.prompt_name,
                 !.symbol = IF data.symbol = <<>> THEN symbol ELSE data.symbol,
                 !.timeframe = IF data.timeframe = "" THEN timeframe ELSE data.timeframe,
                 !.timestamp_utc = IF data.timestamp_utc = "" THEN timestamp_utc
                                   ELSE data.timestamp_utc,
                 !.raw_notes = IF data.raw_notes = "" THEN notes ELSE data.raw_notes,
                 !.current_price = IF data.current_price = None THEN cur_price
                                   ELSE data.current_price,
                 !.entry_distance_pips =
                     calculate_pip_distance(data.entry, cur_price, symbol, t)]

\* Lines 781-791.  confidence, stop, targets, rationale and invalidation are
\* returned as the model gave them and are read by nothing modelled here.
FillFields(data, prompt_name, symbol, timeframe, timestamp_utc, notes, cur_price, t) ==
    [data EXCEPT !.prompt_name = prompt_name,
                 !.symbol = OrChars(data.symbol, symbol),
                 !.timeframe = Or(data.timeframe, timeframe),
                 !.timestamp_utc = Or(data.timestamp_utc, timestamp_utc),
                 !.raw_notes = Or(data.raw_notes, notes),
                 !.current_price = cur_price,
                 !.entry_distance_pips =
                     calculate_pip_distance(data.entry, cur_price, symbol, t)]

\* Lines 710-713 of the system instruction: the price distance it calls 100
\* pips, for JPY pairs 1.00, for XAUUSD 10.00, for major pairs 0.0100
InstructionTolerance(symbol) ==
    IF Contains(<<"J", "P", "Y">>, symbol) THEN 100000
    ELSE IF symbol = XAUUSD THEN 1000000
    ELSE 1000

-----------------------------------------------------------------------------
(* main *)

PROMPTS == <<"prompt1", "prompt2", "prompt3", "prompt4">>

TIMEFRAME == "5m"

NOTES == "study notes"

\* utc_now_iso() at the start of the run
RunTimestamp == "2026-01-05T10:00:00+00:00"

\* SYMBOLS as the configuration can leave it: the requested symbols that are
\* in ALLOWED_SYMBOLS, or the single STUDY_SYMBOL when none is
Configurations ==
    {<<EURUSD>>, <<AUDJPY>>, <<EURUSD, AUDJPY>>, <<AUDJPY, EURUSD>>, <<XAUUSD>>,
     <<EURUSD, EURUSD>>}

\* What the model can answer for a symbol, as json.loads returns it: a HOLD
\* that names an entry half a pip from the quote and sets every field itself,
\* and a BUY 101 pips from the quote that leaves the context fields empty.
Responses(s) ==
    LET b == BasePrice(s)
        pip == get_pip_value(s)
    IN  {[symbol |-> s, timeframe |-> "1h", timestamp_utc |-> "2025-12-31T00:00:00Z",
          signal |-> "HOLD", entry |-> Some(b + pip \div 2),
          prompt_name |-> "model", raw_notes |-> "model notes",
          current_price |-> Some(b + pip), entry_distance_pips |-> Some(7)],
         [symbol |-> <<>>, timeframe |-> "", timestamp_utc |-> "",
          signal |-> "BUY", entry |-> Some(b + 101 * pip),
          prompt_name |-> "", raw_notes |-> "",
          current_price |-> None, entry_distance_pips |-> None]}

\* what can fail in one attempt: the API call, the emptiness test, json.loads
Errors == {"APIConnectionError", "ValueError: Empty response from OpenAI API",
           "JSONDecodeError"}

\* Lines 914-925: the write-back of the validation onto the record
ApplyValidation_no_writeback(res, v) ==
    IF ~v.valid
    THEN [res EXCEPT !.validation = Some(v),
                     !.original_signal = Some(v.original_signal)]
    ELSE [res EXCEPT !.validation = Some(v)]

ApplyValidation(res, v) ==
    IF ~v.valid
    THEN [res EXCEPT !.signal = v.final_signal,
                     !.validation = Some(v),
                     !.original_signal = Some(v.original_signal)]
    ELSE [res EXCEPT !.validation = Some(v)]

\* the record with the two keys main may add, both absent
AsResult(data) ==
    [symbol |-> data.symbol, timeframe |-> data.timeframe,
     timestamp_utc |-> data.timestamp_utc, signal |-> data.signal,
     entry |-> data.entry, prompt_name |-> data.prompt_name,
     raw_notes |-> data.raw_notes, current_price |-> data.current_price,
     entry_distance_pips |-> data.entry_distance_pips,
     validation |-> None, original_signal |-> None]

cur_symbol == SYMBOLS[si]

ValidatorIdle ==
    /\ vpc = "idle"
    /\ record = [signal |-> "HOLD", entry |-> None]
    /\ price = None
    /\ sym = EURUSD
    /\ validation = None
    /\ given = record
    /\ validation2 = None

RequestIdle == req = [pc |-> "idle"]

FetchIdle == fx = [pc |-> "idle"]

SymbolIdle == sy = [pc |-> "idle"]

RenderIdle == rp = [pc |-> "idle"]

MainIdle ==
    /\ pc = "idle"
    /\ SYMBOLS = <<EURUSD>>
    /\ si = 1
    /\ pi = 1
    /\ main_price = None
    /\ attempt = 0
    /\ last_err = None
    /\ main_result = None
    /\ all_results = <<>>
    /\ saved = <<>>
    /\ combined = None
    /\ http_client = "unset"
    /\ raised = None
    /\ fetched = <<>>

Init ==
    /\ ValidatorIdle
    /\ RequestIdle
    /\ FetchIdle
    /\ SymbolIdle
    /\ RenderIdle
    /\ tie \in {0, 1}
    /\ pc = "start"
    /\ SYMBOLS \in Configurations
    /\ si = 1
    /\ pi = 1
    /\ main_price = None
    /\ attempt = 0
    /\ last_err = None
    /\ main_result = None
    /\ all_results = <<>>
    /\ saved = <<>>
    /\ combined = None
    /\ http_client = "unset"
    /\ raised = None
    /\ fetched = <<>>

Finally_leaks(client) == client

\* Lines 1011-1014: the finally of main closes the client if the name is bound
Finally(client) == IF client = "unset" THEN "unset" ELSE "closed"

\* The except and finally of main: the exception escapes, the client is closed if
\* it was created
Abort(exc) ==
    /\ pc' = "aborted"
    /\ raised' = Some([type |-> exc, last_err |-> last_err])
    /\ http_client' = Finally(http_client)

\* Lines 809-844: the directories, the clients, the empty result list; or
\* ensure_dirs raises before the client exists; or the client is created and
\* OpenAI(...) or out_dir.mkdir raises
StartRun ==
    /\ pc = "start"
    /\ \/ /\ http_client' = "open"
          /\ all_results' = <<>>
          /\ pc' = "fetch"
          /\ UNCHANGED raised
       \/ /\ Abort("OSError")
          /\ UNCHANGED all_results
       \/ /\ pc' = "aborted"
          /\ raised' = Some([type |-> "OpenAIError", last_err |-> last_err])
          /\ http_client' = Finally("open")
          /\ UNCHANGED all_results
    /\ UNCHANGED <<valVars, pureVars, req, fx, tie, fetched, SYMBOLS, si, pi, main_price, attempt,
                   last_err, main_result, saved, combined>>

\* the price fetched for the first symbol only and kept for the others
FetchPrice_first_symbol_only ==
    /\ pc = "fetch"
    /\ IF si = 1
       THEN /\ main_price' \in {None, Some(BasePrice(cur_symbol))}
            /\ fetched' = Append(fetched, main_price')
       ELSE UNCHANGED <<main_price, fetched>>
    /\ pi' = 1
    /\ pc' = "pair"
    /\ UNCHANGED <<valVars, pureVars, req, fx, tie, SYMBOLS, si, attempt, last_err, main_result,
                   all_results, saved, combined, http_client, raised>>

\* Lines 853-864: one fetch per symbol; an unavailable price is None
FetchPrice ==
    /\ pc = "fetch"
    /\ main_price' \in {None, Some(BasePrice(cur_symbol))}
    /\ fetched' = Append(fetched, main_price')
    /\ pi' = 1
    /\ pc' = "pair"
    /\ UNCHANGED <<valVars, pureVars, req, fx, tie, SYMBOLS, si, attempt, last_err, main_result,
                   all_results, saved, combined, http_client, raised>>

\* Lines 893-895 and 755: the template is read and rendered and the call
\* starts, or safe_read_text raises
StartPair ==
    /\ pc = "pair"
    /\ \/ /\ attempt' = 0
          /\ last_err' = None
          /\ pc' = "attempt"
          /\ UNCHANGED <<http_client, raised>>
       \/ /\ Abort("FileNotFoundError")
          /\ UNCHANGED <<attempt, last_err>>
    /\ UNCHANGED <<valVars, pureVars, req, fx, tie, fetched, SYMBOLS, si, pi, main_price, main_result,
                   all_results, saved, combined>>

\* Lines 795-799: an attempt raises; the error is kept and the loop goes on.
\* backoff_sleep between attempts blocks the run and changes nothing kept here.
AttemptFails ==
    /\ pc = "attempt"
    /\ attempt < max_retries
    /\ \E e \in Errors : last_err' = Some(e)
    /\ attempt' = attempt + 1
    /\ UNCHANGED <<valVars, pureVars, req, fx, tie, fetched, pc, SYMBOLS, si, pi, main_price, main_result,
                   all_results, saved, combined, http_client, raised>>

\* Lines 758-793: an attempt returns a parsed response, filled in; the locals
\* of the call (attempt, last_err) end with it
AttemptSucceeds ==
    /\ pc = "attempt"
    /\ attempt < max_retries
    /\ \E data \in Responses(cur_symbol) :
           main_result' = Some(AsResult(FillFields(data, PROMPTS[pi], cur_symbol, TIMEFRAME,
                                              RunTimestamp, NOTES, main_price, tie)))
    /\ attempt' = 0
    /\ last_err' = None
    /\ pc' = "validate"
    /\ UNCHANGED <<valVars, pureVars, req, fx, tie, fetched, SYMBOLS, si, pi, main_price,
                   all_results, saved, combined, http_client, raised>>

\* the failed pair dropped and the run going on with the next one
Exhausted_skips ==
    /\ pc = "attempt"
    /\ attempt = max_retries
    /\ attempt' = 0
    /\ last_err' = None
    /\ IF pi < Len(PROMPTS)
       THEN /\ pi' = pi + 1
            /\ pc' = "pair"
            /\ UNCHANGED si
       ELSE IF si < Len(SYMBOLS)
       THEN /\ si' = si + 1
            /\ pc' = "fetch"
            /\ UNCHANGED pi
       ELSE /\ pc' = "finish"
            /\ UNCHANGED <<si, pi>>
    /\ UNCHANGED <<valVars, pureVars, req, fx, tie, fetched, SYMBOLS, main_price, main_result,
                   all_results, saved, combined, http_client, raised>>

\* Lines 801-803, 952-955, 1006-1014: the loop ran out; RuntimeError escapes,
\* its message holding last_err
Exhausted ==
    /\ pc = "attempt"
    /\ attempt = max_retries
    /\ Abort("RuntimeError")
    /\ UNCHANGED <<valVars, pureVars, req, fx, tie, fetched, SYMBOLS, si, pi, main_price, attempt, last_err,
                   main_result, all_results, saved, combined>>

\* Lines 911-933: validate, write back, append, save; then the next prompt,
\* the next symbol, or the end of the loops
ValidateAndPersist ==
    /\ pc = "validate"
    /\ LET v == validate_entry_price(main_result[1], main_price, cur_symbol, tie)
           res == ApplyValidation(main_result[1], v)
       IN  /\ main_result' = Some(res)
           /\ all_results' = Append(all_results, res)
           /\ saved' = Append(saved, [symbol |-> cur_symbol, prompt |-> PROMPTS[pi],
                                       data |-> res])
    /\ IF pi < Len(PROMPTS)
       THEN /\ pi' = pi + 1
            /\ pc' = "pair"
            /\ UNCHANGED si
       ELSE IF si < Len(SYMBOLS)
       THEN /\ si' = si + 1
            /\ pc' = "fetch"
            /\ UNCHANGED pi
       ELSE /\ pc' = "finish"
            /\ UNCHANGED <<si, pi>>
    /\ UNCHANGED <<valVars, pureVars, req, fx, tie, fetched, SYMBOLS, main_price, attempt, last_err,
                   combined, http_client, raised>>

\* Lines 958-1014: the combined file and the reports, then the finally
FinishRun ==
    /\ pc = "finish"
    /\ combined' = Some(all_results)
    /\ http_client' = Finally(http_client)
    /\ pc' = "done"
    /\ UNCHANGED <<valVars, pureVars, req, fx, tie, fetched, SYMBOLS, si, pi, main_price, attempt, last_err,
                   main_result, all_results, saved, raised>>

Next ==
    \/ StartRun
    \/ FetchPrice
    \/ StartPair
    \/ AttemptFails
    \/ AttemptSucceeds
    \/ Exhausted
    \/ ValidateAndPersist
    \/ FinishRun

Spec == Init /\ [][Next]_vars

-----------------------------------------------------------------------------
(* The validator applied to every input *)

InitValidate ==
    /\ vpc = "input"
    /\ sym \in Symbols
    /\ price \in RefPrices(sym)
    /\ \E s \in Signals, e \in Entries(sym, price) :
           record = [signal |-> s, entry |-> e]
    /\ tie \in {0, 1}
    /\ validation = None
    /\ given = record
    /\ validation2 = None
    /\ MainIdle
    /\ RequestIdle
    /\ FetchIdle
    /\ SymbolIdle
    /\ RenderIdle

\* The call: the function reads result with .get and assigns to nothing but
\* its own validation dict
Validate ==
    /\ vpc = "input"
    /\ validation' = Some(validate_entry_price(record, price, sym, tie))
    /\ vpc' = "done"
    /\ UNCHANGED <<record, price, sym, given, validation2, tie, mainVars, req, fx,
                   pureVars>>

\* A second call on the same arguments, as the first call left them
ValidateAgain ==
    /\ vpc = "done"
    /\ validation2' = Some(validate_entry_price(record, price, sym, tie))
    /\ vpc' = "again"
    /\ UNCHANGED <<record, price, sym, given, validation, tie, mainVars, req, fx,
                   pureVars>>

NextValidate ==
    \/ Validate
    \/ ValidateAgain

SpecValidate == InitValidate /\ [][NextValidate]_vars

-----------------------------------------------------------------------------
(* call_model_structured on its own: lines 755-803 with max_retries drawn *)

\* the largest max_retries drawn; the backoff reaches its cap after attempt 5
MaxBudget == 7

\* backoff_sleep: min(2 ** attempt, 30), in seconds
BackoffCap == 30

\* backoff_sleep: random.uniform(0, 0.7), in hundredths of a second
JitterMax == 70

\* the jitter drawn: the two ends of the interval
Jitters == {0, JitterMax}

\* backoff_sleep(attempt), the time slept in hundredths of a second
backoff_sleep(a, jitter) ==
    (IF 2 ^ a < BackoffCap THEN 2 ^ a ELSE BackoffCap) * 100 + jitter

MoreAttempts_extra(a, n) == a <= n

\* `for attempt in range(max_retries)`
MoreAttempts(a, n) == a < n

SleepsAfter_always(a, n) == TRUE

\* `if attempt < max_retries - 1`
SleepsAfter(a, n) == a < n - 1

\* SIGNAL_SCHEMA, on the fields it constrains by value: the enum of signal,
\* confidence in [0, 1] (hundredths), at most 5 targets
Conforms(data) ==
    /\ data.signal \in Signals
    /\ data.confidence \in 0..100
    /\ Len(data.targets) <= 5

\* What json.loads can return for the content of a response: answers that
\* conform to the schema, with the context fields set or left empty, and
\* answers that parse but do not conform (a signal outside the enum, a
\* confidence of 1.5, six targets).
RequestResponses(s) ==
    LET b == BasePrice(s)
        pip == get_pip_value(s)
    IN  {[symbol |-> <<"X", "/", "Y">>, timeframe |-> "1h",
          timestamp_utc |-> "2025-12-31T00:00:00Z",
          signal |-> "HOLD", entry |-> Some(b + pip \div 2),
          prompt_name |-> "model", raw_notes |-> "model notes",
          current_price |-> Some(b + pip), entry_distance_pips |-> Some(7),
          confidence |-> 50, targets |-> <<>>],
         [symbol |-> <<>>, timeframe |-> "", timestamp_utc |-> "",
          signal |-> "BUY", entry |-> Some(b + 101 * pip),
          prompt_name |-> "", raw_notes |-> "",
          current_price |-> None, entry_distance_pips |-> None,
          confidence |-> 100, targets |-> <<b + 102 * pip>>],
         [symbol |-> s, timeframe |-> "", timestamp_utc |-> "2025-12-31T00:00:00Z",
          signal |-> "SELL", entry |-> None,
          prompt_name |-> "prompt9", raw_notes |-> "",
          current_price |-> Some(b), entry_distance_pips |-> Some(0),
          confidence |-> 0, targets |-> <<>>],
         [symbol |-> s, timeframe |-> "5m", timestamp_utc |-> "",
          signal |-> "WAIT", entry |-> Some(b - pip \div 2),
          prompt_name |-> "", raw_notes |-> "",
          current_price |-> None, entry_distance_pips |-> None,
          confidence |-> 150, targets |-> <<b, b, b, b, b, b>>]}

InitRequest ==
    /\ ValidatorIdle
    /\ MainIdle
    /\ FetchIdle
    /\ SymbolIdle
    /\ RenderIdle
    /\ tie \in {0, 1}
    /\ \E n \in 1..MaxBudget, s \in {EURUSD, AUDJPY} :
       \E p \in {None, Some(BasePrice(s))} :
           req = [pc |-> "loop",
                  max_retries |-> n,
                  args |-> [prompt_name |-> "prompt2", symbol |-> s,
                            timeframe |-> TIMEFRAME, timestamp_utc |-> RunTimestamp,
                            notes |-> NOTES, current_price |-> p],
                  attempt |-> 0,
                  last_err |-> None,
                  calls |-> <<>>,      \* the attempts made: [attempt, ok]
                  thrown |-> None,     \* what the latest attempt raised
                  sleeps |-> <<>>,     \* the sleeps made: [after, secs]
                  response |-> None,   \* what json.loads returned
                  returned |-> None,
                  raised |-> None]

\* Lines 795-799: the attempt raises; last_err is set, and the loop sleeps if
\* another attempt follows
CallAttemptFails ==
    /\ req.pc = "loop"
    /\ MoreAttempts(req.attempt, req.max_retries)
    /\ \E e \in Errors, j \in Jitters :
           req' = [req EXCEPT
                     !.last_err = Some(e),
                     !.thrown = Some(e),
                     !.calls = Append(@, [attempt |-> req.attempt, ok |-> FALSE]),
                     !.sleeps = IF SleepsAfter(req.attempt, req.max_retries)
                                THEN Append(@, [after |-> req.attempt,
                                                secs |-> backoff_sleep(req.attempt, j)])
                                ELSE @,
                     !.attempt = @ + 1]
    /\ UNCHANGED <<valVars, pureVars, tie, mainVars, fx>>

\* Lines 758-793: the attempt gets content that parses; the fields are filled
\* and the dict is returned
CallAttemptSucceeds ==
    /\ req.pc = "loop"
    /\ MoreAttempts(req.attempt, req.max_retries)
    /\ \E data \in RequestResponses(req.args.symbol) :
           req' = [req EXCEPT
                     !.calls = Append(@, [attempt |-> req.attempt, ok |-> TRUE]),
                     !.thrown = None,
                     !.response = Some(data),
                     !.returned = Some(FillFields(data, req.args.prompt_name,
                                                  req.args.symbol, req.args.timeframe,
                                                  req.args.timestamp_utc, req.args.notes,
                                                  req.args.current_price, tie)),
                     !.pc = "returned"]
    /\ UNCHANGED <<valVars, pureVars, tie, mainVars, fx>>

\* Lines 801-803: the loop is over; RuntimeError with last_err in its message
CallExhausted ==
    /\ req.pc = "loop"
    /\ ~MoreAttempts(req.attempt, req.max_retries)
    /\ req' = [req EXCEPT
                 !.raised = Some([type |-> "RuntimeError", last_err |-> req.last_err]),
                 !.pc = "raised"]
    /\ UNCHANGED <<valVars, pureVars, tie, mainVars, fx>>

NextRequest ==
    \/ CallAttemptFails
    \/ CallAttemptSucceeds
    \/ CallExhausted

SpecRequest == InitRequest /\ [][NextRequest]_vars

-----------------------------------------------------------------------------
(* fetch_current_market_data on its own: lines 169-222 *)

\* time.time() at the call, and the timestamp the service puts in a reply
ClockValues == {1000, 1001}

ServiceTimestamp == Some(990)

\* The "price" member of the reply: absent, or a JSON value.  The service sends
\* the price as text; the other values are what a JSON object can hold there.
PriceFields ==
    {[present |-> FALSE, t |-> "none", text |-> ""],
     [present |-> TRUE, t |-> "str", text |-> "1.10000"],
     [present |-> TRUE, t |-> "str", text |-> "abc"],
     [present |-> TRUE, t |-> "str", text |-> "nan"],
     [present |-> TRUE, t |-> "num", text |-> "1.10000"],
     [present |-> TRUE, t |-> "bool", text |-> "true"],
     [present |-> TRUE, t |-> "null", text |-> "null"]}

\* The "timestamp" member of the reply: absent, null, or a number
TimestampFields ==
    {[present |-> FALSE, value |-> None],
     [present |-> TRUE, value |-> None],
     [present |-> TRUE, value |-> ServiceTimestamp]}

NoPriceField == [present |-> FALSE, t |-> "none", text |-> ""]

NoTimestampField == [present |-> FALSE, value |-> None]

\* What client.get, raise_for_status and response.json can produce: a
\* transport error, a status outside 2xx, a body that is not JSON, and a JSON
\* body that is an object, a number or a list.
Replies ==
    {[kind |-> k, json |-> "none", code |-> FALSE, price |-> NoPriceField,
      ts |-> NoTimestampField] : k \in {"transport", "status", "badjson"}}
    \cup {[kind |-> "ok", json |-> j, code |-> FALSE, price |-> NoPriceField,
           ts |-> NoTimestampField] : j \in {"number", "list"}}
    \cup {[kind |-> "ok", json |-> "object", code |-> c, price |-> p, ts |-> t] :
              c \in BOOLEAN, p \in PriceFields, t \in TimestampFields}

\* float(data["price"]): a number, the text of a decimal number, "nan" and
\* True convert; other text raises ValueError and None raises TypeError
py_float(p) ==
    IF p.t = "num" THEN [exc |-> "", kind |-> "finite", n |-> 110000]
    ELSE IF p.t = "bool" THEN [exc |-> "", kind |-> "finite", n |-> 100000]
    ELSE IF p.t = "null" THEN [exc |-> "TypeError", kind |-> "none", n |-> 0]
    ELSE IF p.text = "1.10000" THEN [exc |-> "", kind |-> "finite", n |-> 110000]
    ELSE IF p.text = "nan" THEN [exc |-> "", kind |-> "nan", n |-> 0]
    ELSE [exc |-> "ValueError", kind |-> "none", n |-> 0]

\* The except clause that catches an exception of the try: lines 214, 217, 220
ExceptClause(exc) ==
    IF exc \in {"ConnectError", "HTTPStatusError"} THEN "httpx.HTTPError"
    ELSE IF exc \in {"JSONDecodeError", "ValueError", "KeyError"} THEN "ValueError, KeyError"
    ELSE "Exception"

\* Lines 192-212: what the try does with the reply: the exception it raises
\* ("" when none) and the value it returns
TryBody(symbol, reply, now) ==
    IF reply.kind = "transport" THEN [exc |-> "ConnectError", value |-> None]
    ELSE IF reply.kind = "status" THEN [exc |-> "HTTPStatusError", value |-> None]
    ELSE IF reply.kind = "badjson" THEN [exc |-> "JSONDecodeError", value |-> None]
    ELSE IF reply.json = "number" THEN [exc |-> "TypeError", value |-> None]
    ELSE IF reply.json = "list" THEN [exc |-> "", value |-> None]
    ELSE IF reply.code THEN [exc |-> "", value |-> None]
    ELSE IF ~reply.price.present THEN [exc |-> "", value |-> None]
    ELSE LET f == py_float(reply.price)
         IN  IF f.exc # "" THEN [exc |-> f.exc, value |-> None]
             ELSE [exc |-> "",
                   value |-> Some([current_price |-> [kind |-> f.kind, n |-> f.n],
                                   timestamp |-> IF reply.ts.present THEN reply.ts.value
                                                 ELSE Some(now),
                                   price_source |-> "TwelveData",
                                   symbol |-> symbol])]

NoReply ==
    [kind |-> "none", json |-> "none", code |-> FALSE, price |-> NoPriceField,
     ts |-> NoTimestampField]

InitFetch ==
    /\ ValidatorIdle
    /\ MainIdle
    /\ RequestIdle
    /\ SymbolIdle
    /\ RenderIdle
    /\ tie = 0
    /\ \E s \in Symbols, key \in BOOLEAN, now \in ClockValues :
           fx = [pc |-> "call",
                 symbol |-> s,
                 api_key |-> key,        \* TWELVEDATA_API_KEY is not empty
                 now |-> now,
                 network_calls |-> 0,
                 reply |-> NoReply,
                 caught |-> "",          \* the except clause taken
                 result |-> None,
                 raised |-> None]

\* Lines 174-176: no API key; None without a request
FetchNoKey ==
    /\ fx.pc = "call"
    /\ ~fx.api_key
    /\ fx' = [fx EXCEPT !.pc = "returned"]
    /\ UNCHANGED <<valVars, pureVars, tie, mainVars, req>>

\* Lines 189-192: the one request of the call, and what comes back
FetchSend ==
    /\ fx.pc = "call"
    /\ fx.api_key
    /\ \E r \in Replies :
           fx' = [fx EXCEPT !.pc = "sent",
                            !.network_calls = @ + 1,
                            !.reply = r]
    /\ UNCHANGED <<valVars, pureVars, tie, mainVars, req>>

\* Lines 191-222: the rest of the try and its except clauses
FetchHandle ==
    /\ fx.pc = "sent"
    /\ LET out == TryBody(fx.symbol, fx.reply, fx.now)
       IN  fx' = [fx EXCEPT !.pc = "returned",
                            !.caught = IF out.exc = "" THEN "" ELSE ExceptClause(out.exc),
                            !.result = IF out.exc = "" THEN out.value ELSE None]
    /\ UNCHANGED <<valVars, pureVars, tie, mainVars, req>>

NextFetch ==
    \/ FetchNoKey
    \/ FetchSend
    \/ FetchHandle

SpecFetch == InitFetch /\ [][NextFetch]_vars

-----------------------------------------------------------------------------
(* format_symbol_for_twelvedata and get_pip_value on their own *)

\* how many fragments a drawn symbol is put together from
MaxFragments == 3

\* the pieces symbols are put together from: the substrings get_pip_value
\* looks for, in both letter cases, currency codes, and the slash
Fragments ==
    {<<>>,
     <<"J", "P", "Y">>, <<"X", "A", "U">>, <<"G", "O", "L", "D">>,
     <<"g", "o", "l", "d">>, <<"x", "a", "u">>, <<"G", "o", "l", "d">>,
     <<"U", "S", "D">>, <<"E", "U", "R">>, <<"E", "U">>, <<"/">>}

RECURSIVE Joined(_)
Joined(n) ==
    IF n = 0 THEN {<<>>}
    ELSE {a \o b : a \in Fragments, b \in Joined(n - 1)}

SymbolInputs == Joined(MaxFragments)

\* Lines 154-166: the test for XAUUSD, then the test of the length, then the
\* test for a slash
format_symbol_for_twelvedata(symbol) ==
    IF symbol = XAUUSD THEN <<"X", "A", "U", "/", "U", "S", "D">>
    ELSE IF Len(symbol) = 6
    THEN SubSeq(symbol, 1, 3) \o <<"/">> \o SubSeq(symbol, 4, 6)
    ELSE IF Contains(<<"/">>, symbol) THEN symbol
    ELSE symbol

InitSymbol ==
    /\ ValidatorIdle
    /\ MainIdle
    /\ RequestIdle
    /\ FetchIdle
    /\ RenderIdle
    /\ tie = 0
    /\ \E s \in SymbolInputs :
           sy = [pc |-> "call", symbol |-> s, formatted |-> None, pip |-> None]

\* format_symbol_for_twelvedata(symbol)
CallFormatSymbol ==
    /\ sy.pc = "call"
    /\ sy.formatted = None
    /\ sy' = [sy EXCEPT !.formatted = Some(format_symbol_for_twelvedata(sy.symbol))]
    /\ UNCHANGED <<valVars, tie, mainVars, req, fx, rp>>

\* get_pip_value(symbol)
CallPipValue ==
    /\ sy.pc = "call"
    /\ sy.pip = None
    /\ sy' = [sy EXCEPT !.pip = Some(get_pip_value(sy.symbol))]
    /\ UNCHANGED <<valVars, tie, mainVars, req, fx, rp>>

NextSymbol ==
    \/ CallFormatSymbol
    \/ CallPipValue

SpecSymbol == InitSymbol /\ [][NextSymbol]_vars

-----------------------------------------------------------------------------
(* render_prompt on its own: lines 235-240.  Strings are character sequences *)

\* the longest template drawn
MaxTemplateLen == 5

TemplateChars == {"{", "}", "A", "B"}

RECURSIVE Strings(_)
Strings(n) ==
    IF n = 0 THEN {<<>>}
    ELSE Strings(n - 1)
         \cup {Append(t, c) : t \in {u \in Strings(n - 1) : Len(u) = n - 1},
                              c \in TemplateChars}

Templates == Strings(MaxTemplateLen)

Keys == {<<"A">>, <<"B">>}

\* the values of the variables: text, text that holds a placeholder, a number
Values ==
    {[t |-> "str", s |-> <<"x">>, n |-> 0],
     [t |-> "str", s |-> <<"{", "A", "}">>, n |-> 0],
     [t |-> "str", s |-> <<"{", "B", "}">>, n |-> 0],
     [t |-> "num", s |-> <<>>, n |-> 17]}

\* the dicts drawn, as the sequence of their items in iteration order
VariableDicts ==
    {<<>>}
    \cup {<<[k |-> k1, v |-> v1]>> : k1 \in Keys, v1 \in Values}
    \cup UNION {{<<[k |-> k1, v |-> v1], [k |-> k2, v |-> v2]>> :
                     k2 \in Keys \ {k1}, v1 \in Values, v2 \in Values} : k1 \in Keys}

DigitChars == <<"0", "1", "2", "3", "4", "5", "6", "7", "8", "9">>

RECURSIVE Digits(_)
Digits(n) ==
    IF n < 10 THEN <<DigitChars[n + 1]>>
    ELSE Append(Digits(n \div 10), DigitChars[(n % 10) + 1])

\* str(v), for text and for a number that is not negative
py_str(v) == IF v.t = "str" THEN v.s ELSE Digits(v.n)

\* str.replace(old, new) for a non-empty old: the occurrences of old from the
\* left, not overlapping
RECURSIVE Replace(_, _, _)
Replace(str, old, new) ==
    IF Len(str) < Len(old) THEN str
    ELSE IF SubSeq(str, 1, Len(old)) = old
    THEN new \o Replace(SubSeq(str, Len(old) + 1, Len(str)), old, new)
    ELSE <<str[1]>> \o Replace(Tail(str), old, new)

Placeholder(k) == <<"{">> \o k \o <<"}">>

\* Lines 238-239: the loop over variables.items(), out replaced in each turn
RECURSIVE RenderLoop(_, _)
RenderLoop(out, items) ==
    IF items = <<>> THEN out
    ELSE RenderLoop(Replace(out, Placeholder(items[1].k), py_str(items[1].v)),
                    Tail(items))

render_prompt(template, variables) == RenderLoop(template, variables)

InitRender ==
    /\ ValidatorIdle
    /\ MainIdle
    /\ RequestIdle
    /\ FetchIdle
    /\ SymbolIdle
    /\ tie = 0
    /\ \E t \in Templates, d \in VariableDicts :
           rp = [pc |-> "call", template |-> t, variables |-> d,
                 drawn |-> <<t, d>>,    \* the arguments as they were drawn
                 out |-> None, raised |-> None]

\* render_prompt(template, variables): strings are immutable and the dict is
\* only read
CallRenderPrompt ==
    /\ rp.pc = "call"
    /\ rp' = [rp EXCEPT !.pc = "returned",
                        !.out = Some(render_prompt(rp.template, rp.variables))]
    /\ UNCHANGED <<valVars, tie, mainVars, req, fx, sy>>

NextRender == CallRenderPrompt

SpecRender == InitRender /\ [][NextRender]_vars

-----------------------------------------------------------------------------
(* Properties of validate_entry_price, under SpecValidate *)

Validated == vpc \in {"done", "again"}

V == validation[1]

Directional == record.signal \in {"BUY", "SELL"}

HasEntry == record.entry # None

HasPrice == price # None

\* c (hundredths) is d / pip rounded to 2 decimals: no hundredth is nearer
IsRounded(c, d, pip) ==
    LET whole == d \div pip
        rem == d % pip
    IN  2 * Abs(100 * rem - (c - 100 * whole) * pip) <= pip

NullEntryReason == Some(Msg("Entry price is null but signal is not HOLD", <<>>))

NonPositiveReason(entry) ==
    Some(Msg("Entry price ({}) is unrealistic (non-positive)", <<entry>>))

TooFarReason(entry, pips, ref) ==
    Some(Msg("Entry price ({}) is {} pips away from current price ({}), exceeding 100 pip limit",
             <<entry, pips, ref>>))

\* C1: whenever the validator returns valid = FALSE, final_signal is HOLD, and
\* it differs from original_signal unless that was HOLD already.
C1_InvalidIsHold ==
    (Validated /\ ~V.valid) =>
        /\ V.final_signal = "HOLD"
        /\ (V.original_signal # "HOLD" => V.final_signal # V.original_signal)

C1_Witness ==
    /\ Validated
    /\ ~V.valid
    /\ V.original_signal = "SELL"
    /\ HasEntry /\ record.entry[1] <= 0
    /\ V.entry_distance_pips # None /\ V.entry_distance_pips[1] <= MaxPips

\* C2: a HOLD record is valid whatever its entry and the reference price:
\* no distance, no override, no reason, no warning.
C2_HoldUntouched ==
    (Validated /\ record.signal = "HOLD") =>
        /\ V.valid
        /\ V.entry_distance_pips = None
        /\ V.final_signal = "HOLD"
        /\ V.original_signal = "HOLD"
        /\ V.violation_reason = None
        /\ V.warnings = <<>>

C2_Witness ==
    /\ Validated
    /\ record.signal = "HOLD"
    /\ HasPrice
    /\ HasEntry /\ record.entry[1] < 0
    /\ V.valid

\* C4: for BUY and SELL an absent reference price gives a valid result with
\* the signal unchanged, no distance, no reason and exactly one warning, also
\* when the entry is null or non-positive.
C4_AbsentPriceValid ==
    (Validated /\ Directional /\ ~HasPrice) =>
        /\ V.valid
        /\ V.final_signal = V.original_signal
        /\ V.original_signal = record.signal
        /\ V.entry_distance_pips = None
        /\ V.violation_reason = None
        /\ Len(V.warnings) = 1

C4_Witness ==
    /\ Validated
    /\ Directional
    /\ ~HasPrice
    /\ ~HasEntry
    /\ V.valid /\ Len(V.warnings) = 1

\* C5: for BUY and SELL a null entry with a reference price present gives
\* valid = FALSE, final_signal HOLD, no distance, the null-entry reason and
\* exactly one warning.
C5_NullEntryInvalid ==
    (Validated /\ Directional /\ ~HasEntry /\ HasPrice) =>
        /\ ~V.valid
        /\ V.final_signal = "HOLD"
        /\ V.entry_distance_pips = None
        /\ V.violation_reason = NullEntryReason
        /\ Len(V.warnings) = 1

C5_Witness ==
    /\ Validated
    /\ record.signal = "BUY"
    /\ ~HasEntry
    /\ HasPrice
    /\ ~V.valid

\* C6: for BUY and SELL with a positive entry and a reference price present,
\* entry_distance_pips is |entry - price| / pipValue rounded to 2 decimals;
\* above 100 the result is invalid with final_signal HOLD, at 100 or below it
\* is valid with the signal unchanged.
C6_DistanceDecides ==
    (Validated /\ Directional /\ HasEntry /\ HasPrice /\ record.entry[1] > 0) =>
        /\ V.entry_distance_pips # None
        /\ IsRounded(V.entry_distance_pips[1], Abs(record.entry[1] - price[1]),
                     get_pip_value(sym))
        /\ (V.entry_distance_pips[1] > MaxPips =>
                ~V.valid /\ V.final_signal = "HOLD")
        /\ (V.entry_distance_pips[1] <= MaxPips =>
                V.valid /\ V.final_signal = V.original_signal
                        /\ V.original_signal = record.signal)

\* exactly 100 pips away
C6_Witness ==
    /\ Validated
    /\ Directional
    /\ HasEntry /\ HasPrice /\ record.entry[1] > 0
    /\ Abs(record.entry[1] - price[1]) = 100 * get_pip_value(sym)
    /\ V.entry_distance_pips = Some(MaxPips)
    /\ V.valid

\* C7: scenarios A and B.  EURUSD at 1.1000: an entry of 1.1050 is 50.0 pips
\* away and stays valid, an entry of 1.1200 is 200.0 pips away and is
\* overridden to HOLD with the reason that cites the 100-pip limit.
C7_ScenariosAB ==
    (Validated /\ Directional /\ sym = EURUSD /\ price = Some(110000)) =>
        /\ record.entry = Some(110500) =>
              /\ V.entry_distance_pips = Some(5000)
              /\ V.valid
              /\ V.final_signal = V.original_signal
        /\ record.entry = Some(112000) =>
              /\ V.entry_distance_pips = Some(20000)
              /\ ~V.valid
              /\ V.final_signal = "HOLD"
              /\ V.violation_reason = TooFarReason(112000, 20000, 110000)

\* C8: the validator enforces the tolerance the system instruction states: a
\* positive entry further from the reference price than the instruction's
\* 100-pip distance is overridden to HOLD, one within it is not.
C8_InstructionBoundEnforced ==
    (Validated /\ Directional /\ HasEntry /\ HasPrice /\ record.entry[1] > 0) =>
        /\ Abs(record.entry[1] - price[1]) > InstructionTolerance(sym) =>
              ~V.valid /\ V.final_signal = "HOLD"
        /\ Abs(record.entry[1] - price[1]) <= InstructionTolerance(sym) =>
              V.valid /\ V.final_signal = V.original_signal

\* C9: for BUY and SELL a non-null entry <= 0 with a reference price present
\* gives valid = FALSE, final_signal HOLD and the non-positive reason, whether
\* or not the distance check fired too.
C9_NonPositiveInvalid ==
    (Validated /\ Directional /\ HasEntry /\ HasPrice /\ record.entry[1] <= 0) =>
        /\ ~V.valid
        /\ V.final_signal = "HOLD"
        /\ V.violation_reason = NonPositiveReason(record.entry[1])

\* an entry of 0 within 100 pips: only the non-positive check fires
C9_Witness ==
    /\ Validated
    /\ Directional
    /\ record.entry = Some(0)
    /\ HasPrice
    /\ V.entry_distance_pips # None /\ V.entry_distance_pips[1] <= MaxPips
    /\ ~V.valid

\* the checks of the validator that append a warning, counted from the inputs
\* and the distance returned
ChecksTriggered ==
    IF record.signal = "HOLD" THEN 0
    ELSE IF ~HasPrice THEN 1
    ELSE IF ~HasEntry THEN 1
    ELSE (IF V.entry_distance_pips[1] > MaxPips THEN 1 ELSE 0)
         + (IF record.entry[1] <= 0 THEN 1 ELSE 0)

\* C10: when the too-far and the non-positive check both fire, the reason is
\* the non-positive one (the later check) and the warnings are the too-far
\* warning followed by the non-positive warning; in every result the number of
\* warnings is the number of checks that fired.
C10_LastReasonAllWarnings ==
    Validated =>
        /\ Len(V.warnings) = ChecksTriggered
        /\ (/\ Directional /\ HasEntry /\ HasPrice
            /\ record.entry[1] <= 0
            /\ V.entry_distance_pips[1] > MaxPips) =>
              /\ V.violation_reason = NonPositiveReason(record.entry[1])
              /\ V.warnings =
                   <<Msg("Entry too far from current price: {} pips (max 100)",
                         <<V.entry_distance_pips[1]>>),
                     Msg("Entry price is non-positive - forcing HOLD", <<>>)>>

C10_Witness ==
    /\ Validated
    /\ Directional
    /\ HasEntry /\ HasPrice
    /\ record.entry[1] < 0
    /\ V.entry_distance_pips[1] > MaxPips
    /\ Len(V.warnings) = 2

\* a validation dict as the function builds it
WellFormed(v) ==
    /\ v.valid \in BOOLEAN
    /\ v.original_signal \in Signals
    /\ v.final_signal \in Signals
    /\ Len(v.violation_reason) <= 1
    /\ Len(v.entry_distance_pips) <= 1
    /\ v.current_price = price

C12_OriginalAndFinal ==
    Validated =>
        /\ V.original_signal = given.signal
        /\ (V.valid <=> V.final_signal = V.original_signal)
        /\ (~V.valid => V.final_signal = "HOLD")

C12_Witness ==
    /\ Validated
    /\ given.signal = "BUY"
    /\ given.entry # None /\ given.entry[1] > 0
    /\ V.entry_distance_pips # None /\ V.entry_distance_pips[1] > MaxPips
    /\ V.original_signal = "BUY"
    /\ V.final_signal = "HOLD"

\* C26: violation_reason is set exactly when the result is not valid; a
\* result that is not valid has at least one warning; a valid result has a
\* warning only when the signal is directional and the price is absent.
C26_ReasonAndWarnings ==
    Validated =>
        /\ (V.violation_reason # None) <=> ~V.valid
        /\ ~V.valid => Len(V.warnings) >= 1
        /\ (V.valid /\ Len(V.warnings) > 0) => (Directional /\ ~HasPrice)
        /\ (Directional /\ ~HasPrice) => (V.valid /\ Len(V.warnings) = 1)

\* too far and nothing else: one reason, one warning
C26_Witness ==
    /\ Validated
    /\ ~V.valid
    /\ given.entry # None
    /\ given.entry[1] > 0
    /\ V.violation_reason # None
    /\ Len(V.warnings) = 1

\* the exact distance between the entry and the price, in price units
ExactDistance == Abs(record.entry[1] - price[1])

\* C27, as stated: a BUY or SELL left valid with a price present has an entry
\* at most 100 pips from the price, exactly: |entry - price| <= 100 * pip.
C27_ExactWithinLimit ==
    (Validated /\ Directional /\ HasPrice /\ HasEntry /\ V.valid) =>
        ExactDistance <= 100 * get_pip_value(sym)

\* C27, amended: such an entry has a distance that rounds to at most 100.00
\* pips: it is at most 100.005 pips from the price, and the distance the
\* validation carries is at most 100.00.
C27_RoundedWithinLimit ==
    (Validated /\ Directional /\ HasPrice /\ HasEntry /\ V.valid) =>
        /\ ExactDistance <= 100 * get_pip_value(sym) + get_pip_value(sym) \div 200
        /\ V.entry_distance_pips # None
        /\ V.entry_distance_pips[1] <= MaxPips
        /\ IsRounded(V.entry_distance_pips[1], ExactDistance, get_pip_value(sym))

\* 100.004 pips away and valid, with the distance 100.00
C27_Witness ==
    /\ Validated
    /\ Directional
    /\ V.valid
    /\ HasPrice
    /\ HasEntry
    /\ ExactDistance = 100 * get_pip_value(sym) + get_pip_value(sym) \div 250
    /\ V.entry_distance_pips = Some(MaxPips)

-----------------------------------------------------------------------------
(* Properties of call_model_structured, under SpecRequest *)

Failed(c) == \A i \in 1..Len(c) : ~c[i].ok

\* C13: attempts are made one after another, at most max_retries of them; the
\* call returns at the first success and makes no attempt after it; it raises
\* only after max_retries failures, and then with the error of the last
\* attempt; after max_retries failures it does not return.
C13_RetryBudget ==
    req.pc # "idle" =>
        LET n == req.max_retries
            c == req.calls
        IN  /\ Len(c) <= n
            /\ \A i \in 1..Len(c) : c[i].attempt = i - 1
            /\ \A i \in 1..(Len(c) - 1) : ~c[i].ok
            /\ (req.pc = "returned") <=> (Len(c) >= 1 /\ c[Len(c)].ok)
            /\ req.pc = "returned" => (req.returned # None /\ req.raised = None)
            /\ req.pc = "raised" =>
                  /\ Len(c) = n
                  /\ Failed(c)
                  /\ req.returned = None
                  /\ req.thrown # None
                  /\ req.raised = Some([type |-> "RuntimeError", last_err |-> req.thrown])
            /\ (Len(c) = n /\ Failed(c)) => req.pc \in {"loop", "raised"}

\* scenario E: four failures, then the fifth attempt of five succeeds
C13_Witness ==
    /\ req.pc = "returned"
    /\ req.max_retries = 5
    /\ Len(req.calls) = 5
    /\ req.calls[5].ok
    /\ req.last_err # None

\* the base of the sleep after the failed attempt a, in hundredths of a second
SleepBase(a) == IF 2 ^ a < 30 THEN 100 * 2 ^ a ELSE 3000

\* C14: a sleep follows a failed attempt only when another attempt follows;
\* the sleep after attempt a lasts min(2^a, 30) seconds plus at most 0.7; the
\* bases do not decrease (1, 2, 4, 8 with 5 attempts) and no sleep is longer
\* than 30.7 seconds.
C14_Backoff ==
    req.pc # "idle" =>
        LET n == req.max_retries
            c == req.calls
            s == req.sleeps
        IN  /\ Len(s) <= n - 1
            /\ Len(s) = Cardinality({i \in 1..Len(c) : ~c[i].ok /\ i < n})
            /\ \A i \in 1..Len(s) :
                  /\ s[i].after = i - 1
                  /\ ~c[i].ok
                  /\ s[i].secs >= SleepBase(i - 1)
                  /\ s[i].secs <= SleepBase(i - 1) + 70
                  /\ s[i].secs <= 3070
            /\ \A i \in 1..Len(s), j \in 1..Len(s) :
                  i < j => SleepBase(i - 1) <= SleepBase(j - 1)
            /\ (n = 5 /\ Len(s) = 4) =>
                  \A i \in 1..4 : s[i].secs \in {<<100, 200, 400, 800>>[i],
                                                 <<100, 200, 400, 800>>[i] + 70}

\* the cap is reached: the sleep after attempt 5 has base 30, not 32
C14_Witness ==
    /\ req.pc = "raised"
    /\ req.max_retries = 7
    /\ Len(req.sleeps) = 6
    /\ req.sleeps[6].secs = 3070
    /\ req.sleeps[5].secs = 1600

\* C15: in the record returned prompt_name is the caller's, current_price is
\* the fetched price, entry_distance_pips is recomputed from the entry and that
\* price (null when either is null); symbol, timeframe, timestamp_utc and
\* raw_notes are the model's when non-empty and the caller's otherwise.
C15_FilledFields ==
    req.pc = "returned" =>
        LET r == req.returned[1]
            d == req.response[1]
            a == req.args
        IN  /\ r.prompt_name = a.prompt_name
            /\ r.current_price = a.current_price
            /\ (d.entry = None \/ a.current_price = None) => r.entry_distance_pips = None
            /\ (d.entry # None /\ a.current_price # None) =>
                  /\ r.entry_distance_pips # None
                  /\ IsRounded(r.entry_distance_pips[1],
                               Abs(d.entry[1] - a.current_price[1]),
                               get_pip_value(a.symbol))
            /\ r.symbol = (IF d.symbol # <<>> THEN d.symbol ELSE a.symbol)
            /\ r.timeframe = (IF d.timeframe # "" THEN d.timeframe ELSE a.timeframe)
            /\ r.timestamp_utc =
                  (IF d.timestamp_utc # "" THEN d.timestamp_utc ELSE a.timestamp_utc)
            /\ r.raw_notes = (IF d.raw_notes # "" THEN d.raw_notes ELSE a.notes)
            /\ r.signal = d.signal
            /\ r.entry = d.entry

\* the model set every field itself, with a price and a distance of its own
C15_Witness ==
    /\ req.pc = "returned"
    /\ req.response[1].prompt_name = "model"
    /\ req.response[1].current_price # req.args.current_price
    /\ req.args.current_price # None
    /\ req.returned[1].prompt_name = "prompt2"
    /\ req.returned[1].symbol = <<"X", "/", "Y">>
    /\ req.returned[1].entry_distance_pips = Some(50)

\* C16: every record call_model_structured returns conforms to SIGNAL_SCHEMA:
\* signal is BUY, SELL or HOLD, confidence is in [0, 1], targets has at most 5
\* entries; a parsed response that does not conform is never returned.
C16_SchemaEnforced ==
    req.pc = "returned" => Conforms(req.returned[1])

-----------------------------------------------------------------------------
(* Properties of fetch_current_market_data, under SpecFetch *)

\* the price member is a number or the text of a decimal number
NumericPrice(p) == p.t = "num" \/ (p.t = "str" /\ p.text = "1.10000")

\* the reply is one of the failures the specification lists
ListedFailure(r) ==
    \/ r.kind \in {"transport", "status"}
    \/ /\ r.kind = "ok"
       /\ r.json = "object"
       /\ (r.code \/ ~r.price.present \/ ~NumericPrice(r.price))

\* C20: fetch_current_market_data never raises and makes at most one request;
\* a transport error, a status outside 2xx, an error payload, a reply without
\* price and a price that is not numeric all give None; a result has a price
\* that is a number, the source label, and the timestamp of the service or,
\* when the service gave none, the current time.
C20_FetchNeverRaises ==
    fx.pc = "returned" =>
        /\ fx.raised = None
        /\ fx.network_calls <= 1
        /\ ~fx.api_key => (fx.network_calls = 0 /\ fx.result = None)
        /\ fx.network_calls = 1 =>
              /\ ListedFailure(fx.reply) => fx.result = None
              /\ fx.result # None =>
                    /\ fx.result[1].current_price.kind = "finite"
                    /\ fx.result[1].price_source = "TwelveData"
                    /\ fx.result[1].timestamp # None
                    /\ fx.result[1].timestamp =
                          (IF fx.reply.ts.value # None THEN fx.reply.ts.value
                           ELSE Some(fx.now))

-----------------------------------------------------------------------------
(* Properties of the symbol functions, under SpecSymbol *)

Slash == <<"/">>

\* C21: XAUUSD becomes XAU/USD, a symbol of 6 characters without a slash gets
\* a slash after its third character, and a symbol that contains a slash is
\* returned as it is, whatever its length.
C21_SymbolNormalized ==
    (sy.pc = "call" /\ sy.formatted # None) =>
        LET s == sy.symbol
            f == sy.formatted[1]
        IN  /\ s = XAUUSD => f = <<"X", "A", "U", "/", "U", "S", "D">>
            /\ (Len(s) = 6 /\ ~Contains(Slash, s)) =>
                  f = SubSeq(s, 1, 3) \o Slash \o SubSeq(s, 4, 6)
            /\ Contains(Slash, s) => f = s

\* C22, as stated: the pip value is positive; it is 1.00 when the symbol
\* contains "JPY", 10.00 when it does not and contains "XAU" or "GOLD", and
\* 0.01 for every other symbol.
C22_PipValueAsStated ==
    (sy.pc = "call" /\ sy.pip # None) =>
        LET s == sy.symbol
            p == sy.pip[1]
            jpy == Contains(<<"J", "P", "Y">>, s)
            gold == Contains(<<"X", "A", "U">>, s) \/ Contains(<<"G", "O", "L", "D">>, s)
        IN  /\ p > 0
            /\ jpy => p = 100000
            /\ (~jpy /\ gold) => p = 1000000
            /\ (~jpy /\ ~gold) => p = 1000

\* the symbol contains "gold" in some letter case
HasGold(s) ==
    \E i \in 1..(Len(s) - 3) :
        /\ s[i] \in {"G", "g"}
        /\ s[i + 1] \in {"O", "o"}
        /\ s[i + 2] \in {"L", "l"}
        /\ s[i + 3] \in {"D", "d"}

\* C22, amended: as stated, with "GOLD" looked for in any letter case ("JPY"
\* and "XAU" only as written).
C22_PipValue ==
    (sy.pc = "call" /\ sy.pip # None) =>
        LET s == sy.symbol
            p == sy.pip[1]
            jpy == Contains(<<"J", "P", "Y">>, s)
            gold == Contains(<<"X", "A", "U">>, s) \/ HasGold(s)
        IN  /\ p > 0
            /\ jpy => p = 100000
            /\ (~jpy /\ gold) => p = 1000000
            /\ (~jpy /\ ~gold) => p = 1000
            /\ (jpy \/ gold) => p >= 100000

\* a symbol with both "XAU" and "JPY" has the value of JPY
C22_Witness ==
    /\ sy.pc = "call"
    /\ sy.symbol = <<"X", "A", "U", "J", "P", "Y">>
    /\ sy.pip = Some(100000)

-----------------------------------------------------------------------------
(* Properties of render_prompt, under SpecRender *)

\* the item of the placeholder that template starts with, if there is one
StartsWith(str, items) ==
    {i \in 1..Len(items) :
        /\ Len(str) >= Len(Placeholder(items[i].k))
        /\ SubSeq(str, 1, Len(Placeholder(items[i].k))) = Placeholder(items[i].k)}

\* The template with every {KEY} of a key of the variables replaced by the
\* string of its value, all at once, everything else left as it is
RECURSIVE Substituted(_, _)
Substituted(str, items) ==
    IF str = <<>> THEN <<>>
    ELSE IF StartsWith(str, items) # {}
    THEN LET i == CHOOSE j \in StartsWith(str, items) : TRUE
         IN  py_str(items[i].v)
             \o Substituted(SubSeq(str, Len(Placeholder(items[i].k)) + 1, Len(str)), items)
    ELSE <<str[1]>> \o Substituted(Tail(str), items)

\* C23: render_prompt returns the template with every {KEY} of a key in
\* variables replaced by the string of its value and every other placeholder
\* left as it is; it does not raise, and the template and the variables are
\* as they were.
C23_Substitution ==
    rp.pc = "returned" =>
        /\ rp.raised = None
        /\ rp.out # None
        /\ rp.out[1] = Substituted(rp.template, rp.variables)
        /\ <<rp.template, rp.variables>> = rp.drawn

Reversed(items) == [i \in 1..Len(items) |-> items[Len(items) + 1 - i]]

\* C28: a value that holds the placeholder of another variable appears in the
\* output as it is wherever its own placeholder stood, and the output is the
\* same for the other iteration order of the variables.
C28_Simultaneous ==
    rp.pc = "returned" =>
        /\ rp.out[1] = render_prompt(rp.template, Reversed(rp.variables))
        /\ \A i \in 1..Len(rp.variables) :
              LET it == rp.variables[i]
              IN  (/\ Contains(Placeholder(it.k), rp.template)
                   /\ \E j \in 1..Len(rp.variables) :
                         j # i /\ Contains(Placeholder(rp.variables[j].k), py_str(it.v)))
                  => Contains(py_str(it.v), rp.out[1])

-----------------------------------------------------------------------------
(* Properties of the run, under Spec *)

\* C3: every record main has saved with signal HOLD has entry_distance_pips
\* null, whether the model answered HOLD or the validator overrode to HOLD.
C3_SavedHoldHasNoDistance ==
    \A i \in 1..Len(saved) :
        saved[i].data.signal = "HOLD" => saved[i].data.entry_distance_pips = None

\* the number of pairs the loops of main have gone past
PairsBefore == (si - 1) * Len(PROMPTS) + (pi - 1)

\* C17: when the retries of a pair run out the run aborts with that
\* RuntimeError: nothing is appended or saved for the pair, no later pair is
\* started, and the combined file and the HTML report are not written.  No
\* pair is skipped: whenever a pair is being worked on, every pair before it
\* has its record appended and saved.
C17_ExhaustionAborts ==
    /\ [](/\ Len(saved) = Len(all_results)
          /\ pc \in {"pair", "attempt", "validate"} => Len(all_results) = PairsBefore
          /\ pc = "fetch" => Len(all_results) = (si - 1) * Len(PROMPTS)
          /\ combined # None => (pc = "done" /\ raised = None
                                 /\ Len(all_results) = Len(SYMBOLS) * Len(PROMPTS))
          /\ pc = "aborted" => (raised # None /\ combined = None))
    /\ [][(pc = "attempt" /\ attempt = max_retries) =>
              /\ pc' = "aborted"
              /\ raised' = Some([type |-> "RuntimeError", last_err |-> last_err])
              /\ last_err # None
              /\ all_results' = all_results
              /\ saved' = saved
              /\ combined' = None
              /\ <<si', pi'>> = <<si, pi>>]_vars
    /\ [][pc = "aborted" => pc' = "aborted"]_vars

C17_Witness ==
    /\ pc = "aborted"
    /\ raised # None
    /\ raised[1].type = "RuntimeError"
    /\ Len(saved) = 5
    /\ Len(SYMBOLS) = 2
    /\ <<si, pi>> = <<2, 2>>
    /\ combined = None

\* C18: every record appended and saved carries its validation; when the
\* validation is not valid the record's signal is final_signal, which is HOLD,
\* and original_signal is the signal the model gave; when it is valid the
\* record's signal is the model's.
C18_ValidationWrittenBack ==
    /\ [](\A i \in 1..Len(all_results) :
             /\ saved[i].data = all_results[i]
             /\ all_results[i].validation # None
             /\ LET r == all_results[i]
                    v == r.validation[1]
                IN  /\ ~v.valid => (r.signal = v.final_signal /\ r.signal = "HOLD")
                    /\ v.valid => r.signal = v.original_signal)
    /\ [][pc = "validate" =>
              LET r == all_results'[Len(all_results')]
              IN  /\ Len(all_results') = Len(all_results) + 1
                  /\ r.validation # None
                  /\ r.validation[1].original_signal = main_result[1].signal
                  /\ r.validation[1].valid => r.signal = main_result[1].signal]_vars

C18_Witness ==
    /\ Len(all_results) = 5
    /\ all_results[1].signal = "BUY"
    /\ all_results[1].validation[1].valid
    /\ all_results[5].signal = "HOLD"
    /\ ~all_results[5].validation[1].valid
    /\ all_results[5].validation[1].original_signal = "BUY"
    /\ all_results[5].original_signal = Some("BUY")
    /\ saved[5].data = all_results[5]

\* the index in SYMBOLS of the symbol of the i-th saved record
SymbolOf(i) == ((i - 1) \div Len(PROMPTS)) + 1

\* C19: when the fetch for a symbol gave no price, every prompt of the symbol
\* is still requested, validated and saved: the record has current_price null,
\* a valid validation and the model's signal; a run that ends has saved one
\* record for every pair.
C19_NoPriceDoesNotBlock ==
    /\ [](\A i \in 1..Len(saved) :
             /\ saved[i].symbol = SYMBOLS[SymbolOf(i)]
             /\ saved[i].prompt = PROMPTS[((i - 1) % Len(PROMPTS)) + 1]
             /\ fetched[SymbolOf(i)] = None =>
                   LET r == saved[i].data
                   IN  /\ r.current_price = None
                       /\ r.validation # None
                       /\ r.validation[1].valid
                       /\ r.validation[1].current_price = None
                       /\ r.signal = r.validation[1].original_signal
                       /\ r.original_signal = None)
    /\ [](pc = "done" => (/\ Len(saved) = Len(SYMBOLS) * Len(PROMPTS)
                          /\ Len(fetched) = Len(SYMBOLS)))
    /\ [][pc = "fetch" => (pc' = "pair" /\ pi' = 1)]_vars
    /\ [][(pc = "validate" /\ main_price = None) =>
              saved'[Len(saved')].data.signal = main_result[1].signal]_vars

C19_Witness ==
    /\ pc = "done"
    /\ Len(SYMBOLS) > 1
    /\ fetched[1] = None
    /\ fetched[2] # None
    /\ \A i \in 1..Len(PROMPTS) : saved[i].data.signal = "BUY"
    /\ saved[1].data.entry # None

\* C24: a run that has ended, normally or by an exception, has closed the
\* HTTP client if it had created it; the client is open while the loops run;
\* a run aborted by an exception has that exception escaping main, a run that
\* completed has none.
C24_ClientClosed ==
    /\ [](/\ pc \in {"done", "aborted"} => http_client \in {"unset", "closed"}
          /\ http_client = "unset" =>
                (pc = "start" \/ (pc = "aborted" /\ raised = Some([type |-> "OSError",
                                                                 last_err |-> None])))
          /\ pc \in {"fetch", "pair", "attempt", "validate", "finish"} =>
                http_client = "open"
          /\ pc = "aborted" => raised # None
          /\ pc = "done" => raised = None)
    /\ [][(http_client = "open" /\ pc' \in {"done", "aborted"}) =>
              http_client' = "closed"]_vars
    /\ [][pc' = "aborted" => raised' # None]_vars

\* exhausted retries in the middle of a run: closed, and the error escapes
C24_Witness ==
    /\ pc = "aborted"
    /\ http_client = "closed"
    /\ raised # None
    /\ raised[1].type = "RuntimeError"
    /\ Len(saved) = 3

=============================================================================
